---- MODULE Spec2Model ----
(***************************************************************************)
(* Model of StudyOS app.py: the plan enforcement and deck compilation      *)
(* pipeline (load_metadata, enforce_plan_rules, find_layout,               *)
(* fill_placeholders, build_pptx_from_plan, generate) and its pure text    *)
(* helpers (apply_content_rule, clip_text).                                *)
(*                                                                         *)
(* Python values are modelled as follows.                                  *)
(*   str    a sequence of one-character strings                            *)
(*   dict   a function; a missing key is a key outside its DOMAIN          *)
(*   list   a sequence                                                     *)
(*   None   as the result of dict.get(k): the empty tuple, a present       *)
(*          value v being <<v>>                                            *)
(* Dictionary keys that the code writes as literals ("slides",             *)
(* "layout_name", "10") are TLA+ strings.                                  *)
(***************************************************************************)
EXTENDS Integers, Sequences, FiniteSets, TLC

VARIABLES
    pc,          \* position of the request handler / of the function under check
    METADATA,    \* module-level METADATA = load_metadata()
    template,    \* prs.slide_layouts of the template opened by Presentation()
    topic,       \* the request's topic
    plan,        \* the plan dict handed from step to step in generate()
    deck,        \* prs.slides of the deck being built
    cursor,      \* number of slide specs build_pptx_from_plan has consumed
    response,    \* status and error of generate()'s response, "" while running
    prev,        \* ghost: plan["slides"] returned by the previous enforce run
    runs,        \* ghost: number of enforce_plan_rules runs so far
    text,        \* argument of apply_content_rule
    rule_desc,   \* argument of apply_content_rule
    max_chars,   \* argument of clip_text (Optional)
    cased,       \* result of apply_content_rule(text, rule_desc)
    clipped,     \* result of clip_text(cased, max_chars)
    layout_name, \* argument of find_layout
    found        \* index in template of the layout find_layout returned, 0 before

vars == <<pc, METADATA, template, topic, plan, deck, cursor, response, prev, runs,
          text, rule_desc, max_chars, cased, clipped, layout_name, found>>

(***************************************************************************)
(* Bounds of the model.                                                    *)
(***************************************************************************)
MaxTextLen == 3
MaxLayouts == 2
MaxPlanLen == 2
MaxFailures == 1

\* program constants of stub_plan
AgendaMinLen == 160
SummaryMinLen == 520

(***************************************************************************)
(* Python str operations.                                                  *)
(***************************************************************************)
None == <<>>
Some(v) == <<v>>
EmptyDict == [k \in {} |-> k]
Get(d, k, default) == IF k \in DOMAIN d THEN d[k] ELSE default

UpperLetters == <<"A","B","C","D","E","F","G","H","I","J","K","L","M",
                  "N","O","P","Q","R","S","T","U","V","W","X","Y","Z">>
LowerLetters == <<"a","b","c","d","e","f","g","h","i","j","k","l","m",
                  "n","o","p","q","r","s","t","u","v","w","x","y","z">>

\* SharpS stands for U+00DF, a lower-case letter whose upper case is "SS"
SharpS == "sz"
UpperSet == {UpperLetters[i] : i \in 1..26}
LowerSet == {LowerLetters[i] : i \in 1..26}
ToLower == [c \in UpperSet |-> LowerLetters[CHOOSE i \in 1..26 : UpperLetters[i] = c]]
ToUpper == [c \in LowerSet |-> UpperLetters[CHOOSE i \in 1..26 : LowerLetters[i] = c]]

IsUpperChar(c) == c \in UpperSet
IsLowerChar(c) == c = SharpS \/ c \in LowerSet
IsCased(c) == IsUpperChar(c) \/ IsLowerChar(c)
IsSpace(c) == c \in {" ", "\t", "\n"}

LowerChar(c) == IF c \in UpperSet THEN <<ToLower[c]>> ELSE <<c>>
UpperChar(c) ==
    IF c = SharpS THEN <<"S", "S">>
    ELSE IF c \in LowerSet THEN <<ToUpper[c]>>
    ELSE <<c>>
TitleChar(c) == IF c = SharpS THEN <<"S", "s">> ELSE UpperChar(c)

RECURSIVE Lower(_)
Lower(s) == IF s = <<>> THEN <<>> ELSE LowerChar(Head(s)) \o Lower(Tail(s))

RECURSIVE Upper(_)
Upper(s) == IF s = <<>> THEN <<>> ELSE UpperChar(Head(s)) \o Upper(Tail(s))

\* str.title(): a cased character is title-cased after an uncased one and
\* lower-cased after a cased one
RECURSIVE TitleFrom(_, _)
TitleFrom(s, prevCased) ==
    IF s = <<>> THEN <<>>
    ELSE (IF IsCased(Head(s))
          THEN (IF prevCased THEN LowerChar(Head(s)) ELSE TitleChar(Head(s)))
          ELSE <<Head(s)>>)
         \o TitleFrom(Tail(s), IsCased(Head(s)))
Title(s) == TitleFrom(s, FALSE)

RECURSIVE LStrip(_)
LStrip(s) == IF s # <<>> /\ IsSpace(Head(s)) THEN LStrip(Tail(s)) ELSE s
RECURSIVE RStrip(_)
RStrip(s) ==
    IF s # <<>> /\ IsSpace(s[Len(s)]) THEN RStrip(SubSeq(s, 1, Len(s) - 1)) ELSE s
Strip(s) == RStrip(LStrip(s))

\* Python's  sub in s
Contains(s, sub) ==
    \/ sub = <<>>
    \/ \E i \in 0..(Len(s) - Len(sub)) :
           s[i + 1] = sub[1] /\ SubSeq(s, i + 1, i + Len(sub)) = sub

\* s[:n] for n >= 0
Prefix(s, n) == SubSeq(s, 1, IF n < Len(s) THEN n ELSE Len(s))

\* str(n) for n >= 0, as a dictionary key
Digits == <<"0", "1", "2", "3", "4", "5", "6", "7", "8", "9">>
RECURSIVE Str(_)
Str(n) == IF n < 10 THEN Digits[n + 1] ELSE Str(n \div 10) \o Digits[(n % 10) + 1]

\* all sequences over S of length at most n
RECURSIVE SeqsUpTo(_, _)
SeqsUpTo(S, n) ==
    IF n = 0 THEN {<<>>}
    ELSE LET shorter == SeqsUpTo(S, n - 1)
         IN  shorter \cup {Append(s, x) : s \in shorter, x \in S}

(***************************************************************************)
(* The substrings the code looks for, as str values.                       *)
(***************************************************************************)
S_must_have == <<"m","u","s","t"," ","h","a","v","e">>
S_ignore == <<"i","g","n","o","r","e">>
S_all_caps_hyphen == <<"a","l","l","-","c","a","p","s">>
S_all_caps == <<"a","l","l"," ","c","a","p","s">>
S_title_case == <<"t","i","t","l","e"," ","c","a","s","e">>
S_sentence_case == <<"s","e","n","t","e","n","c","e"," ","c","a","s","e">>
S_title == <<"t","i","t","l","e">>
S_summary == <<"s","u","m","m","a","r","y">>
S_synonym == <<"s","y","n","o","n","y","m">>

(***************************************************************************)
(* Content rule transformer.                                               *)
(***************************************************************************)
sentence_case(s) ==
    LET t == Strip(s)
    IN  IF t = <<>> THEN t ELSE UpperChar(Head(t)) \o Tail(t)

apply_content_rule(txt, desc) ==
    LET d == Lower(desc)
        t == txt
    IN  IF Contains(d, S_all_caps_hyphen) \/ Contains(d, S_all_caps) THEN Upper(t)
        ELSE IF Contains(d, S_title_case) THEN Title(t)
        ELSE IF Contains(d, S_sentence_case) THEN sentence_case(t)
        ELSE t

\* mutant of clip_text: the cut leaves one character too few
clip_text_short(txt, maxc) ==
    IF maxc # None /\ maxc[1] # 0 /\ maxc[1] > 0 /\ Len(txt) > maxc[1]
    THEN Prefix(txt, maxc[1] - 1)
    ELSE txt

\* "max_chars and max_chars > 0": None and 0 are falsy
clip_text(txt, maxc) ==
    IF maxc # None /\ maxc[1] # 0 /\ maxc[1] > 0 /\ Len(txt) > maxc[1]
    THEN Prefix(txt, maxc[1])
    ELSE txt

(***************************************************************************)
(* Layout resolver.  layouts is prs.slide_layouts, a sequence of           *)
(* [name, placeholders]; the result is the index of the layout returned.   *)
(* On an empty sequence prs.slide_layouts[0] raises IndexError: 0.         *)
(***************************************************************************)
Norm(name) == Lower(Strip(name))

\* mutant of find_layout: one pass that takes the first layout matching exactly or
\* as a substring
find_layout_single_pass(layouts, name) ==
    LET target == Norm(name)
        hits == {i \in 1..Len(layouts) :
                    \/ Norm(layouts[i].name) = target
                    \/ target # <<>> /\ Contains(Norm(layouts[i].name), target)}
    IN  IF hits # {} THEN CHOOSE i \in hits : \A j \in hits : i <= j
        ELSE IF Len(layouts) > 0 THEN 1
        ELSE 0

find_layout(layouts, name) ==
    LET target == Norm(name)
        exact == {i \in 1..Len(layouts) : Norm(layouts[i].name) = target}
        relaxed == {i \in 1..Len(layouts) :
                       target # <<>> /\ Contains(Norm(layouts[i].name), target)}
        Min(S) == CHOOSE i \in S : \A j \in S : i <= j
    IN  IF exact # {} THEN Min(exact)
        ELSE IF relaxed # {} THEN Min(relaxed)
        ELSE IF Len(layouts) > 0 THEN 1
        ELSE 0

(***************************************************************************)
(* Layout metadata index.  meta is the parsed layout_metadata.json.        *)
(***************************************************************************)
\* a dict comprehension: the last layout of a normalized name wins
layouts_by_name(layouts) ==
    LET keys == {Norm(layouts[i].layout_name) : i \in 1..Len(layouts)}
        Last(k) == CHOOSE i \in 1..Len(layouts) :
                       /\ Norm(layouts[i].layout_name) = k
                       /\ \A j \in 1..Len(layouts) :
                              Norm(layouts[j].layout_name) = k => j <= i
    IN  [k \in keys |-> layouts[Last(k)]]

\* [l["layout_name"] for l in layouts if marker in l.get("layout_description", "").lower()]
RECURSIVE names_with(_, _)
names_with(layouts, marker) ==
    IF layouts = <<>> THEN <<>>
    ELSE (IF Contains(Lower(Get(Head(layouts), "layout_description", <<>>)), marker)
          THEN <<Head(layouts).layout_name>>
          ELSE <<>>)
         \o names_with(Tail(layouts), marker)

load_metadata(meta) ==
    LET layouts == Get(meta, "layouts", <<>>)
    IN  [layouts |-> layouts,
         _layouts_by_name |-> layouts_by_name(layouts),
         _must_have_names |-> names_with(layouts, S_must_have),
         _ignore_names |-> names_with(layouts, S_ignore)]

(***************************************************************************)
(* Plan enforcer.                                                          *)
(***************************************************************************)
T_SUMMARY == <<"S","U","M","M","A","R","Y">>
T_TOPIC == <<"T","O","P","I","C">>
T_auto ==
    <<"A","u","t","o","-","g","e","n","e","r","a","t","e","d"," ","c","o","n","t","e",
      "n","t"," ","a","b","o","u","t"," ","t","h","e"," ","t","o","p","i","c",".">>

\* (s.get("layout_name") or "").strip().lower()
slide_key(s) == Norm(Get(s, "layout_name", <<>>))

\* the placeholders dict of a synthesized must-have slide, built in rule order
RECURSIVE default_placeholders(_, _)
default_placeholders(rules, acc) ==
    IF rules = <<>> THEN acc
    ELSE LET ph == Head(rules)
             pid == Str(ph.id)
             desc == Lower(Get(ph, "content_description", <<>>))
             val == IF Contains(desc, S_title) /\ ~Contains(desc, S_summary)
                    THEN (IF Contains(desc, S_synonym) THEN T_SUMMARY ELSE T_TOPIC)
                    ELSE T_auto
         IN  default_placeholders(Tail(rules),
                 [k \in DOMAIN acc \cup {pid} |-> IF k = pid THEN val ELSE acc[k]])

\* the slides appended by the loop over _must_have_names; present is computed
\* once, before the loop
RECURSIVE must_have_defaults(_, _, _)
must_have_defaults(meta, musts, present) ==
    IF musts = <<>> THEN <<>>
    ELSE LET must == Head(musts)
             key == Norm(must)
             layout == Get(meta._layouts_by_name, key, None)
             placeholders ==
                 IF layout # None
                 THEN default_placeholders(Get(layout, "placeholders", <<>>), EmptyDict)
                 ELSE EmptyDict
         IN  (IF key \notin present
              THEN <<[layout_name |-> must, placeholders |-> placeholders]>>
              ELSE <<>>)
             \o must_have_defaults(meta, Tail(musts), present)

RECURSIVE keep_slides(_, _)
keep_slides(slides, ignore_set) ==
    IF slides = <<>> THEN <<>>
    ELSE (IF slide_key(Head(slides)) \notin ignore_set THEN <<Head(slides)>> ELSE <<>>)
         \o keep_slides(Tail(slides), ignore_set)

\* mutant of enforce_plan_rules: present is computed from the unfiltered slides
enforce_present_before_filter(meta, p) ==
    LET slides == Get(p, "slides", <<>>)
        ignore_set == {Norm(meta._ignore_names[i]) : i \in 1..Len(meta._ignore_names)}
        present == {slide_key(slides[i]) : i \in 1..Len(slides)}
        keep == keep_slides(slides, ignore_set)
        result == keep \o must_have_defaults(meta, meta._must_have_names, present)
    IN  [k \in DOMAIN p \cup {"slides"} |-> IF k = "slides" THEN result ELSE p[k]]

enforce_plan_rules(meta, p) ==
    LET slides == Get(p, "slides", <<>>)
        ignore_set == {Norm(meta._ignore_names[i]) : i \in 1..Len(meta._ignore_names)}
        keep == keep_slides(slides, ignore_set)
        present == {slide_key(keep[i]) : i \in 1..Len(keep)}
        result == keep \o must_have_defaults(meta, meta._must_have_names, present)
    IN  [k \in DOMAIN p \cup {"slides"} |-> IF k = "slides" THEN result ELSE p[k]]

(***************************************************************************)
(* Stub plan.                                                              *)
(***************************************************************************)
\* pad(min_len, base) of stub_plan
RECURSIVE pad_loop(_, _, _)
pad_loop(min_len, base, str) ==
    IF Len(str) < min_len THEN pad_loop(min_len, base, str \o <<" ">> \o base) ELSE str
pad(min_len, base) ==
    Prefix(pad_loop(min_len, base, base), IF min_len > Len(base) THEN min_len ELSE Len(base))

\* s.split(".")[0]
RECURSIVE first_sentence(_)
first_sentence(str) ==
    IF str = <<>> \/ Head(str) = "." THEN <<>> ELSE <<Head(str)>> \o first_sentence(Tail(str))

\* while len(summary_desc) < 520: summary_desc += " " + summary_desc.split(".")[0] + "."
RECURSIVE summary_loop(_)
summary_loop(str) ==
    IF Len(str) < SummaryMinLen
    THEN summary_loop(str \o <<" ">> \o first_sentence(str) \o <<".">>)
    ELSE str

T_agenda ==
    <<"T","h","i","s"," ","s","e","c","t","i","o","n"," ","i","n","t","r","o","d","u",
      "c","e","s"," ","a"," ","k","e","y"," ","i","d","e","a",","," ","p","r","o","v",
      "i","d","e","s"," ","c","o","n","t","e","x","t",","," ","a","n","d"," ","o","u",
      "t","l","i","n","e","s"," ","w","h","a","t"," ","t","h","e"," ","s","t","u","d",
      "e","n","t"," ","w","i","l","l"," ","l","e","a","r","n"," ","i","n"," ","t","h",
      "i","s"," ","p","a","r","t","."," ","I","t"," ","c","o","n","n","e","c","t","s",
      " ","t","h","e"," ","t","o","p","i","c"," ","t","o"," ","r","e","a","l","-","w",
      "o","r","l","d"," ","r","e","l","e","v","a","n","c","e"," ","a","n","d"," ","s",
      "e","t","s"," ","c","l","e","a","r"," ","e","x","p","e","c","t","a","t","i","o",
      "n","s",".">>
T_summary ==
    <<"T","h","i","s"," ","s","u","m","m","a","r","y"," ","c","o","n","s","o","l","i",
      "d","a","t","e","s"," ","t","h","e"," ","m","a","i","n"," ","c","o","n","c","e",
      "p","t","s",","," ","d","e","f","i","n","i","t","i","o","n","s",","," ","a","n",
      "d"," ","r","e","l","a","t","i","o","n","s","h","i","p","s"," ","c","o","v","e",
      "r","e","d"," ","i","n"," ","t","h","e"," ","l","e","s","s","o","n","."," ","I",
      "t"," ","c","l","a","r","i","f","i","e","s"," ","t","h","e"," ","c","o","r","e",
      " ","i","d","e","a",","," ","h","i","g","h","l","i","g","h","t","s"," ","t","h",
      "e"," ","e","s","s","e","n","t","i","a","l"," ","s","t","e","p","s"," ","o","r",
      " ","p","r","o","p","e","r","t","i","e","s",","," ","a","n","d"," ","r","e","f",
      "l","e","c","t","s"," ","o","n"," ","m","i","s","c","o","n","c","e","p","t","i",
      "o","n","s","."," ","T","h","e"," ","s","e","c","t","i","o","n"," ","a","l","s",
      "o"," ","s","u","g","g","e","s","t","s"," ","h","o","w"," ","t","o"," ","p","r",
      "a","c","t","i","c","e"," ","a","n","d"," ","a","p","p","l","y"," ","t","h","e",
      " ","k","n","o","w","l","e","d","g","e"," ","w","i","t","h"," ","c","o","n","f",
      "i","d","e","n","c","e"," ","i","n"," ","n","e","w"," ","s","i","t","u","a","t",
      "i","o","n","s",".">>
N_Blank == <<"B","l","a","n","k">>
N_2_Custom == <<"2","_","C","u","s","t","o","m"," ","L","a","y","o","u","t">>
N_14_Custom == <<"1","4","_","C","u","s","t","o","m"," ","L","a","y","o","u","t">>
T_An_Overview == <<"A","n"," ","O","v","e","r","v","i","e","w">>
T_INTRODUCTION == <<"I","N","T","R","O","D","U","C","T","I","O","N">>
T_CORE_IDEAS == <<"C","O","R","E"," ","I","D","E","A","S">>
T_APPLICATIONS == <<"A","P","P","L","I","C","A","T","I","O","N","S">>

stub_plan(tp) ==
    LET agenda_desc == pad(AgendaMinLen, T_agenda)
        summary_desc == summary_loop(T_summary)
    IN  [slides |-> <<
            [layout_name |-> N_Blank,
             placeholders |-> ("10" :> Upper(tp) @@ "11" :> T_An_Overview)],
            [layout_name |-> N_2_Custom,
             placeholders |-> ("10" :> T_INTRODUCTION @@ "12" :> T_CORE_IDEAS
                               @@ "11" :> T_APPLICATIONS @@ "13" :> T_SUMMARY
                               @@ "14" :> agenda_desc @@ "15" :> agenda_desc
                               @@ "16" :> agenda_desc @@ "17" :> agenda_desc)],
            [layout_name |-> N_14_Custom,
             placeholders |-> ("10" :> T_SUMMARY @@ "11" :> summary_desc)] >>]

(***************************************************************************)
(* Plan compiler.  A slide of the deck is                                  *)
(*   [layout |-> index of its layout in the template,                      *)
(*    text   |-> the text of each of its placeholders, by idx,             *)
(*    spec   |-> ghost: position of the slide spec it was built for, 0 for *)
(*               the closing slide,                                        *)
(*    failed |-> ghost: fill_placeholders raised on it].                   *)
(***************************************************************************)
\* prs.slides.add_slide(layout): the slide gets the layout's placeholders, empty
new_slide(layouts, li, k) ==
    [layout |-> li,
     text |-> [i \in {layouts[li].placeholders[j].idx :
                         j \in 1..Len(layouts[li].placeholders)} |-> <<>>],
     spec |-> k,
     failed |-> FALSE]

\* rule_by_pid of fill_placeholders: the rules of the metadata layout of the
\* plan's layout_name, by id; a later rule of the same id wins
rule_by_pid(meta, name) ==
    LET layout == Get(meta._layouts_by_name, Norm(name), None)
        rules == IF layout # None THEN Get(layout, "placeholders", <<>>) ELSE <<>>
        Last(pid) == CHOOSE i \in 1..Len(rules) :
                         rules[i].id = pid /\ \A j \in 1..Len(rules) : rules[j].id = pid => j <= i
    IN  [pid \in {rules[i].id : i \in 1..Len(rules)} |-> rules[Last(pid)]]

\* the assignments tf.text = text that the loop of fill_placeholders makes, in
\* order, as [idx, text]
RECURSIVE fill_writes(_, _, _)
fill_writes(shapes, rules, items) ==
    IF shapes = <<>> THEN <<>>
    ELSE LET shp == Head(shapes)
             pid == shp.idx
             key == Str(pid)
             rule == Get(rules, pid, EmptyDict)
             desc == Get(rule, "content_description", <<>>)
             maxchars == IF "maxchars" \in DOMAIN rule THEN Some(rule.maxchars) ELSE None
         IN  (IF key \in DOMAIN items /\ shp.text_frame
              THEN <<[idx |-> pid,
                      text |-> clip_text(apply_content_rule(items[key], desc), maxchars)]>>
              ELSE <<>>)
             \o fill_writes(Tail(shapes), rules, items)

\* the slide after the first n assignments of writes
RECURSIVE written(_, _, _)
written(slide, writes, n) ==
    IF n = 0 THEN slide
    ELSE LET before == written(slide, writes, n - 1)
         IN  [before EXCEPT !.text[writes[n].idx] = writes[n].text]

\* fill_placeholders(slide, layout_name, items) on the slide just added
writes_for(meta, layouts, slide, slide_spec) ==
    fill_writes(layouts[slide.layout].placeholders,
                rule_by_pid(meta, slide_spec.layout_name),
                Get(slide_spec, "placeholders", EmptyDict))

\* mutant of is_skipped: a name of white space only is skipped as well
is_skipped_blank(slide_spec) == Strip(Get(slide_spec, "layout_name", <<>>)) = <<>>

\* if not layout_name: continue
is_skipped(slide_spec) == Get(slide_spec, "layout_name", <<>>) = <<>>

\* mutant of add_thank_you_slide: the first layout instead of the last
add_thank_you_slide_first(layouts, slides) ==
    Append(slides, new_slide(layouts, 1, 0))

\* add_thank_you_slide(prs): the last layout, unchanged
add_thank_you_slide(layouts, slides) ==
    Append(slides, new_slide(layouts, Len(layouts), 0))

(***************************************************************************)
(* Inputs the checks range over.                                           *)
(***************************************************************************)
N_a == <<"a">>
N_A_padded == <<" ", "A", " ">>
N_ab == <<"a", "b">>
N_b == <<"b">>
N_c == <<"C">>
N_blank == <<" ">>
N_empty == <<>>
N_unknown == <<"z">>

Shape(i, tf) == [idx |-> i, text_frame |-> tf]
TL_a == [name |-> N_a, placeholders |-> <<Shape(10, TRUE), Shape(11, TRUE)>>]
TL_A_padded == [name |-> N_A_padded, placeholders |-> <<Shape(10, TRUE)>>]
TL_ab == [name |-> N_ab, placeholders |-> <<Shape(11, FALSE), Shape(10, TRUE)>>]
TL_c == [name |-> N_c, placeholders |-> <<>>]
TL_unnamed == [name |-> N_empty, placeholders |-> <<Shape(7, TRUE)>>]
TemplateLayouts == {TL_a, TL_A_padded, TL_ab, TL_c, TL_unnamed}
RequestedNames == {N_a, N_A_padded, N_ab, N_b, N_c, N_blank, N_empty, N_unknown}

\* layout descriptions and placeholder rules of layout_metadata.json
LD_plain == <<"B","o","d","y">>
LD_must == <<"M","U","S","T"," ","H","A","V","E"," ","s","l","i","d","e">>
LD_ignore == <<"I","g","n","o","r","e">>
LD_both == <<"M","u","s","t"," ","h","a","v","e",";"," ","I","G","N","O","R","E">>
LayoutDescriptions == {LD_plain, LD_must, LD_ignore, LD_both}

CD_title_caps == <<"T","i","t","l","e",","," ","A","L","L","-","C","A","P","S">>
CD_summary_title == <<"S","u","m","m","a","r","y"," ","t","i","t","l","e",","," ",
                      "s","e","n","t","e","n","c","e"," ","c","a","s","e">>
CD_synonym_title == <<"S","y","n","o","n","y","m"," ","T","i","t","l","e"," ","C","a","s","e">>
RulesOf(name) ==
    IF name = N_a
    THEN <<[id |-> 10, content_description |-> CD_title_caps, maxchars |-> 2],
           [id |-> 11, content_description |-> CD_summary_title]>>
    ELSE IF name = N_A_padded
    THEN <<[id |-> 10, content_description |-> CD_synonym_title, maxchars |-> 3]>>
    ELSE <<[id |-> 11]>>
MetaLayouts ==
    {[layout_name |-> n, layout_description |-> d, placeholders |-> RulesOf(n)] :
        n \in {N_a, N_A_padded, N_ab}, d \in LayoutDescriptions}

\* slide specs of a plan
PS_unnamed == [placeholders |-> ("10" :> <<"a">>)]
PS_a == [layout_name |-> N_a,
         placeholders |-> ("10" :> <<"a", " ", "b">> @@ "11" :> <<" ", "a">>)]
PS_A_padded == [layout_name |-> N_A_padded, placeholders |-> ("10" :> <<"a", " ", "b", "c">>)]
PS_b == [layout_name |-> N_b, placeholders |-> ("11" :> <<"B">> @@ "12" :> <<"c">>)]
PS_ab == [layout_name |-> N_ab, placeholders |-> ("10" :> <<SharpS, "a">>)]
PS_blank == [layout_name |-> N_blank]
EnforceSlides == {PS_unnamed, PS_a, PS_A_padded, PS_ab}
PlanSlides == EnforceSlides \cup {PS_b, PS_blank}

\* the deployed files: layout_metadata.json and the layouts of template.pptx
DeployedMetadata ==
    SeqsUpTo(MetaLayouts, 1)
    \cup { <<[layout_name |-> N_a, layout_description |-> LD_must, placeholders |-> RulesOf(N_a)],
             [layout_name |-> N_ab, layout_description |-> LD_ignore,
              placeholders |-> RulesOf(N_ab)]>>,
           <<[layout_name |-> N_ab, layout_description |-> LD_must, placeholders |-> RulesOf(N_ab)],
             [layout_name |-> N_A_padded, layout_description |-> LD_must,
              placeholders |-> RulesOf(N_A_padded)]>> }
TL_Blank == [name |-> N_Blank, placeholders |-> <<Shape(10, TRUE), Shape(11, TRUE)>>]
Templates ==
    { <<>>,
      <<TL_a, TL_ab>>,
      <<TL_ab, TL_A_padded, TL_c>>,
      <<TL_Blank, TL_a, TL_ab>> }

\* request bodies and the plans call_gemini_for_plan can return besides {}
RawTopics == {<<" ">>, <<" ", "a", "i">>}
T_note == <<"n", "o">>
AcquiredPlans ==
    {[error |-> T_note]} \cup {[slides |-> ss] : ss \in SeqsUpTo(PlanSlides, MaxPlanLen)}

TextChars == {" ", "a", "B", SharpS}
D_none == <<>>
D_caps == <<"A","L","L","-","C","A","P","S">>
D_caps_space == <<"A","l","l"," ","c","a","p","s">>
D_title == <<"T","i","t","l","e"," ","c","a","s","e">>
D_sentence == <<"S","e","n","t","e","n","c","e"," ","c","a","s","e">>
D_title_and_caps == D_title \o <<",", " ">> \o S_all_caps
ContentDescs == {D_none, D_caps, D_caps_space, D_title, D_sentence, D_title_and_caps}

(***************************************************************************)
(* Idle values of the variables a specification does not use.              *)
(***************************************************************************)
IdleRequest ==
    /\ METADATA = load_metadata([layouts |-> <<>>])
    /\ topic = <<>>
    /\ plan = EmptyDict
    /\ deck = <<>>
    /\ cursor = 0
    /\ response = ""
IdleEnforce == prev = <<>> /\ runs = 0
IdleClip ==
    /\ text = <<>>
    /\ rule_desc = <<>>
    /\ max_chars = None
    /\ cased = <<>>
    /\ clipped = <<>>
IdleResolve == layout_name = <<>> /\ found = 0

(***************************************************************************)
(* SpecClip: the transform of fill_placeholders, lines 101-102, applied to *)
(* every text, description and maxchars within the bounds.                 *)
(***************************************************************************)
InitClip ==
    /\ pc = "apply_content_rule"
    /\ text \in SeqsUpTo(TextChars, MaxTextLen)
    /\ rule_desc \in ContentDescs
    /\ max_chars \in {None} \cup {Some(n) : n \in (-1)..(MaxTextLen + 1)}
    /\ cased = <<>>
    /\ clipped = <<>>
    /\ template = <<>>
    /\ IdleRequest /\ IdleEnforce /\ IdleResolve

ApplyContentRule ==
    /\ pc = "apply_content_rule"
    /\ cased' = apply_content_rule(text, rule_desc)
    /\ pc' = "clip_text"
    /\ UNCHANGED <<METADATA, template, topic, plan, deck, cursor, response, prev, runs,
                   text, rule_desc, max_chars, clipped, layout_name, found>>

ClipText ==
    /\ pc = "clip_text"
    /\ clipped' = clip_text(cased, max_chars)
    /\ pc' = "clipped"
    /\ UNCHANGED <<METADATA, template, topic, plan, deck, cursor, response, prev, runs,
                   text, rule_desc, max_chars, cased, layout_name, found>>

NextClip == ApplyContentRule \/ ClipText
SpecClip == InitClip /\ [][NextClip]_vars

(***************************************************************************)
(* SpecResolve: find_layout applied to every requested name and template   *)
(* within the bounds.                                                      *)
(***************************************************************************)
InitResolve ==
    /\ pc = "find_layout"
    /\ layout_name \in RequestedNames
    /\ template \in SeqsUpTo(TemplateLayouts, MaxLayouts)
    /\ found = 0
    /\ IdleRequest /\ IdleEnforce /\ IdleClip

Resolve ==
    /\ pc = "find_layout"
    /\ find_layout(template, layout_name) # 0
    /\ found' = find_layout(template, layout_name)
    /\ pc' = "resolved"
    /\ UNCHANGED <<METADATA, template, topic, plan, deck, cursor, response, prev, runs,
                   text, rule_desc, max_chars, cased, clipped, layout_name>>

\* prs.slide_layouts[0] on a template without layouts: IndexError
ResolveRaises ==
    /\ pc = "find_layout"
    /\ find_layout(template, layout_name) = 0
    /\ pc' = "raised"
    /\ UNCHANGED <<METADATA, template, topic, plan, deck, cursor, response, prev, runs,
                   text, rule_desc, max_chars, cased, clipped, layout_name, found>>

NextResolve == Resolve \/ ResolveRaises
SpecResolve == InitResolve /\ [][NextResolve]_vars

(***************************************************************************)
(* SpecEnforce: enforce_plan_rules applied, then applied again to its own  *)
(* result, for every metadata and plan within the bounds.                  *)
(***************************************************************************)
InitEnforce ==
    /\ pc = "enforce"
    /\ METADATA \in {load_metadata([layouts |-> ls]) : ls \in SeqsUpTo(MetaLayouts, MaxLayouts)}
    /\ plan \in {EmptyDict} \cup {[slides |-> ss] : ss \in SeqsUpTo(EnforceSlides, MaxPlanLen)}
    /\ prev = <<>>
    /\ runs = 0
    /\ template = <<>>
    /\ topic = <<>> /\ deck = <<>> /\ cursor = 0 /\ response = ""
    /\ IdleClip /\ IdleResolve

EnforceOnce ==
    /\ pc = "enforce"
    /\ runs = 0
    /\ prev' = Get(plan, "slides", <<>>)
    /\ plan' = enforce_plan_rules(METADATA, plan)
    /\ runs' = 1
    /\ UNCHANGED <<pc, METADATA, template, topic, deck, cursor, response,
                   text, rule_desc, max_chars, cased, clipped, layout_name, found>>

EnforceAgain ==
    /\ pc = "enforce"
    /\ runs = 1
    /\ prev' = plan["slides"]
    /\ plan' = enforce_plan_rules(METADATA, plan)
    /\ runs' = 2
    /\ pc' = "enforced"
    /\ UNCHANGED <<METADATA, template, topic, deck, cursor, response,
                   text, rule_desc, max_chars, cased, clipped, layout_name, found>>

NextEnforce == EnforceOnce \/ EnforceAgain
SpecEnforce == InitEnforce /\ [][NextEnforce]_vars

(***************************************************************************)
(* Spec: one request through generate().                                   *)
(***************************************************************************)
idleVars == <<prev, runs, text, rule_desc, max_chars, cased, clipped, layout_name, found>>

Init ==
    /\ pc = "request"
    /\ METADATA \in {load_metadata([layouts |-> ls]) : ls \in DeployedMetadata}
    /\ template \in Templates
    /\ topic = <<>>
    /\ plan = EmptyDict
    /\ deck = <<>>
    /\ cursor = 0
    /\ response = ""
    /\ IdleEnforce /\ IdleClip /\ IdleResolve

\* topic = (data.get("topic") or "").strip(), non-empty
ReceiveTopic ==
    /\ pc = "request"
    /\ \E raw \in RawTopics :
          /\ Strip(raw) # <<>>
          /\ topic' = Strip(raw)
    /\ pc' = "plan"
    /\ UNCHANGED <<METADATA, template, plan, deck, cursor, response, idleVars>>

\* if not topic: 400
RejectRequest ==
    /\ pc = "request"
    /\ \E raw \in RawTopics : Strip(raw) = <<>>
    /\ response' = "400 Topic is required"
    /\ pc' = "done"
    /\ UNCHANGED <<METADATA, template, topic, plan, deck, cursor, idleVars>>

\* call_gemini_for_plan returned a non-empty dict
AcquirePlan ==
    /\ pc = "plan"
    /\ \E p \in AcquiredPlans : plan' = p
    /\ pc' = "enforce"
    /\ UNCHANGED <<METADATA, template, topic, deck, cursor, response, idleVars>>

\* call_gemini_for_plan returned {}: if not plan: plan = stub_plan(topic)
UseStubPlan ==
    /\ pc = "plan"
    /\ plan' = stub_plan(topic)
    /\ pc' = "enforce"
    /\ UNCHANGED <<METADATA, template, topic, deck, cursor, response, idleVars>>

EnforcePlan ==
    /\ pc = "enforce"
    /\ plan' = enforce_plan_rules(METADATA, plan)
    /\ pc' = "open"
    /\ UNCHANGED <<METADATA, template, topic, deck, cursor, response, idleVars>>

\* prs = Presentation(TEMPLATE_PPTX)
OpenTemplate ==
    /\ pc = "open"
    /\ deck' = <<>>
    /\ cursor' = 0
    /\ pc' = "slides"
    /\ UNCHANGED <<METADATA, template, topic, plan, response, idleVars>>

OpenTemplateFails ==
    /\ pc = "open"
    /\ response' = "500 Template PPTX not found."
    /\ pc' = "done"
    /\ UNCHANGED <<METADATA, template, topic, plan, deck, cursor, idleVars>>

\* one iteration of the loop over plan["slides"], on a spec without layout_name
SkipSlide ==
    /\ pc = "slides"
    /\ cursor < Len(plan["slides"])
    /\ is_skipped(plan["slides"][cursor + 1])
    /\ cursor' = cursor + 1
    /\ UNCHANGED <<pc, METADATA, template, topic, plan, deck, response, idleVars>>

\* find_layout raises IndexError on a template without layouts
FindLayoutRaises ==
    /\ pc = "slides"
    /\ cursor < Len(plan["slides"])
    /\ ~is_skipped(plan["slides"][cursor + 1])
    /\ find_layout(template, plan["slides"][cursor + 1].layout_name) = 0
    /\ response' = "500 Failed to build PPTX: IndexError"
    /\ pc' = "done"
    /\ UNCHANGED <<METADATA, template, topic, plan, deck, cursor, idleVars>>

\* one iteration: find_layout, add_slide, fill_placeholders without an error
FillSlide ==
    /\ pc = "slides"
    /\ cursor < Len(plan["slides"])
    /\ LET slide_spec == plan["slides"][cursor + 1]
       IN  /\ ~is_skipped(slide_spec)
           /\ find_layout(template, slide_spec.layout_name) # 0
           /\ LET slide == new_slide(template,
                                     find_layout(template, slide_spec.layout_name),
                                     cursor + 1)
                  writes == writes_for(METADATA, template, slide, slide_spec)
              IN  deck' = Append(deck, written(slide, writes, Len(writes)))
    /\ cursor' = cursor + 1
    /\ UNCHANGED <<pc, METADATA, template, topic, plan, response, idleVars>>

\* mutant of FillSlideFails: the exception is not caught and ends the request
FillSlideFailsAborts ==
    /\ pc = "slides"
    /\ cursor < Len(plan["slides"])
    /\ LET slide_spec == plan["slides"][cursor + 1]
       IN  /\ ~is_skipped(slide_spec)
           /\ find_layout(template, slide_spec.layout_name) # 0
           /\ LET slide == new_slide(template,
                                     find_layout(template, slide_spec.layout_name),
                                     cursor + 1)
                  writes == writes_for(METADATA, template, slide, slide_spec)
              IN  \E j \in 1..Len(writes) :
                      deck' = Append(deck, [written(slide, writes, j - 1)
                                               EXCEPT !.failed = TRUE])
    /\ response' = "500 Failed to build PPTX: fill"
    /\ pc' = "done"
    /\ UNCHANGED <<METADATA, template, topic, plan, cursor, idleVars>>

\* one iteration in which tf.clear() or tf.text = text of the j-th assignment
\* raises: the earlier assignments stay, the exception is swallowed
FillSlideFails ==
    /\ pc = "slides"
    /\ cursor < Len(plan["slides"])
    /\ Cardinality({i \in 1..Len(deck) : deck[i].failed}) < MaxFailures
    /\ LET slide_spec == plan["slides"][cursor + 1]
       IN  /\ ~is_skipped(slide_spec)
           /\ find_layout(template, slide_spec.layout_name) # 0
           /\ LET slide == new_slide(template,
                                     find_layout(template, slide_spec.layout_name),
                                     cursor + 1)
                  writes == writes_for(METADATA, template, slide, slide_spec)
              IN  \E j \in 1..Len(writes) :
                      deck' = Append(deck, [written(slide, writes, j - 1)
                                               EXCEPT !.failed = TRUE])
    /\ cursor' = cursor + 1
    /\ UNCHANGED <<pc, METADATA, template, topic, plan, response, idleVars>>

\* after the loop: add_thank_you_slide(prs)
AddThankYou ==
    /\ pc = "slides"
    /\ cursor = Len(plan["slides"])
    /\ Len(template) > 0
    /\ deck' = add_thank_you_slide(template, deck)
    /\ pc' = "save"
    /\ UNCHANGED <<METADATA, template, topic, plan, cursor, response, idleVars>>

\* prs.slide_layouts[-1] raises IndexError on a template without layouts;
\* except Exception: pass
AddThankYouSwallowed ==
    /\ pc = "slides"
    /\ cursor = Len(plan["slides"])
    /\ Len(template) = 0
    /\ pc' = "save"
    /\ UNCHANGED <<METADATA, template, topic, plan, deck, cursor, response, idleVars>>

\* prs.save(out_path); return fname; generate() answers with the filename
Save ==
    /\ pc = "save"
    /\ response' = "200"
    /\ pc' = "done"
    /\ UNCHANGED <<METADATA, template, topic, plan, deck, cursor, idleVars>>

SaveFails ==
    /\ pc = "save"
    /\ response' = "500 Failed to build PPTX: save"
    /\ pc' = "done"
    /\ UNCHANGED <<METADATA, template, topic, plan, deck, cursor, idleVars>>

Next ==
    \/ ReceiveTopic \/ RejectRequest
    \/ AcquirePlan \/ UseStubPlan
    \/ EnforcePlan
    \/ OpenTemplate \/ OpenTemplateFails
    \/ SkipSlide \/ FindLayoutRaises \/ FillSlide \/ FillSlideFails
    \/ AddThankYou \/ AddThankYouSwallowed
    \/ Save \/ SaveFails

Spec == Init /\ [][Next]_vars

(***************************************************************************)
(* Vocabulary of the properties: the classification of a metadata layout   *)
(* by its description, read from the loaded layouts.                       *)
(***************************************************************************)
Slides == Get(plan, "slides", <<>>)
MetaLayoutSeq == METADATA.layouts
HasMarker(l, marker) == Contains(Lower(Get(l, "layout_description", <<>>)), marker)
IsForbidden(l) == HasMarker(l, S_ignore)
IsMandatory(l) == HasMarker(l, S_must_have) /\ ~IsForbidden(l)
ForbiddenKeys ==
    {Norm(MetaLayoutSeq[j].layout_name) :
        j \in {i \in 1..Len(MetaLayoutSeq) : IsForbidden(MetaLayoutSeq[i])}}

(***************************************************************************)
(* C1. Forbidden exclusion: after enforce_plan_rules no slide of the plan  *)
(* has a normalized layout_name equal to the normalized name of a layout   *)
(* whose description contains "ignore", also when that description         *)
(* contains "must have" as well.                                           *)
(***************************************************************************)
ForbiddenExclusion ==
    runs >= 1 => \A i \in 1..Len(Slides) : slide_key(Slides[i]) \notin ForbiddenKeys

(***************************************************************************)
(* C2. Mandatory presence: after enforce_plan_rules every layout whose     *)
(* description contains "must have" and not "ignore" has at least one      *)
(* slide of its normalized name, also for the empty plan.                  *)
(***************************************************************************)
MandatoryPresence ==
    runs >= 1 =>
        \A j \in 1..Len(MetaLayoutSeq) :
            IsMandatory(MetaLayoutSeq[j]) =>
                \E i \in 1..Len(Slides) :
                    slide_key(Slides[i]) = Norm(MetaLayoutSeq[j].layout_name)

\* an empty plan was enforced under metadata with a mandatory layout
MandatoryPresenceWitness ==
    /\ runs = 1
    /\ prev = <<>>
    /\ \E j \in 1..Len(MetaLayoutSeq) : IsMandatory(MetaLayoutSeq[j])
    /\ Len(Slides) > 0

(***************************************************************************)
(* C3. Idempotence: enforce_plan_rules applied to its own result returns   *)
(* the same slide list, element by element and in the same order.          *)
(***************************************************************************)
EnforceIdempotent == runs = 2 => plan["slides"] = prev

(***************************************************************************)
(* C10. Shape of the enforced plan: the slides of the input that are not   *)
(* forbidden, unmodified and in order, followed by exactly one synthesized *)
(* slide per mandatory normalized name absent from them, in metadata       *)
(* declaration order.                                                      *)
(***************************************************************************)
KeptOf(slides) == SelectSeq(slides, LAMBDA sl : slide_key(sl) \notin ForbiddenKeys)

\* normalized names of the mandatory layouts from position j on, each once, that
\* are not in seen
RECURSIVE MissingMandatory(_, _)
MissingMandatory(j, seen) ==
    IF j > Len(MetaLayoutSeq) THEN <<>>
    ELSE LET k == Norm(MetaLayoutSeq[j].layout_name)
         IN  IF IsMandatory(MetaLayoutSeq[j]) /\ k \notin seen
             THEN <<k>> \o MissingMandatory(j + 1, seen \cup {k})
             ELSE MissingMandatory(j + 1, seen)

EnforcedShape ==
    runs = 1 =>
        LET kept == KeptOf(prev)
            missing == MissingMandatory(1, {slide_key(kept[i]) : i \in 1..Len(kept)})
        IN  /\ Len(Slides) = Len(kept) + Len(missing)
            /\ SubSeq(Slides, 1, Len(kept)) = kept
            /\ \A i \in 1..Len(missing) : slide_key(Slides[Len(kept) + i]) = missing[i]

(***************************************************************************)
(* C6. Clip correctness.  As stated: for a positive N below the length of  *)
(* the text T, the transform has length exactly N and is the first N       *)
(* characters of the cased text.                                           *)
(***************************************************************************)
ClipCorrectnessOfText ==
    (pc = "clipped" /\ max_chars # None /\ max_chars[1] > 0 /\ max_chars[1] < Len(text))
        => /\ Len(clipped) = max_chars[1]
           /\ clipped = Prefix(cased, max_chars[1])

\* C6 as amended: for a positive N below the length of the cased text, the
\* transform has length exactly N and is the first N characters of the cased text.
ClipCorrectness ==
    (pc = "clipped" /\ max_chars # None /\ max_chars[1] > 0 /\ max_chars[1] < Len(cased))
        => /\ Len(clipped) = max_chars[1]
           /\ \A i \in 1..max_chars[1] : clipped[i] = cased[i]

\* a text whose casing changed it was cut to a positive N
ClipCorrectnessWitness ==
    /\ pc = "clipped"
    /\ max_chars # None /\ max_chars[1] > 0 /\ max_chars[1] < Len(cased)
    /\ cased # text
    /\ Len(cased) # Len(text)

(***************************************************************************)
(* C7. Layout resolution order: on a template with at least one layout,    *)
(* find_layout returns the first exact match of the normalized name if     *)
(* there is one, otherwise the first layout whose normalized name contains *)
(* a non-empty normalized requested name, otherwise the first layout.      *)
(***************************************************************************)
ExactAt(i) == Norm(template[i].name) = Norm(layout_name)
SubstringAt(i) ==
    Norm(layout_name) # <<>> /\ Contains(Norm(template[i].name), Norm(layout_name))

ResolutionOrder ==
    (pc = "resolved" /\ Len(template) > 0) =>
        /\ found \in 1..Len(template)
        /\ (\E i \in 1..Len(template) : ExactAt(i))
               => ExactAt(found) /\ \A j \in 1..(found - 1) : ~ExactAt(j)
        /\ ((\A i \in 1..Len(template) : ~ExactAt(i))
                /\ \E i \in 1..Len(template) : SubstringAt(i))
               => SubstringAt(found) /\ \A j \in 1..(found - 1) : ~SubstringAt(j)
        /\ (\A i \in 1..Len(template) : ~ExactAt(i) /\ ~SubstringAt(i)) => found = 1

\* an exact match was returned although an earlier layout contains the name
ResolutionOrderWitness ==
    /\ pc = "resolved"
    /\ found > 1
    /\ ExactAt(found)
    /\ \E j \in 1..(found - 1) : SubstringAt(j) /\ ~ExactAt(j)

(***************************************************************************)
(* Vocabulary of the deck properties.                                      *)
(***************************************************************************)
Derived == SelectSeq(deck, LAMBDA sl : sl.spec # 0)
HasName(sl) == Get(sl, "layout_name", <<>>) # <<>>
Named == SelectSeq(Slides, HasName)
IsEmptySlide(sl) == \A i \in DOMAIN sl.text : sl.text[i] = <<>>
IsClosing(sl) == sl.spec = 0
Returned == response = "200"
TemplateCoversMetadata ==
    \A j \in 1..Len(MetaLayoutSeq) :
        \E t \in 1..Len(template) : template[t].name = MetaLayoutSeq[j].layout_name
\* the assignments fill_placeholders makes on deck slide i, built for its spec
WritesOf(i) ==
    writes_for(METADATA, template, deck[i], Slides[deck[i].spec])
Fresh(i) == new_slide(template, deck[i].layout, deck[i].spec)

(***************************************************************************)
(* C4. A forbidden layout never appears in a generated deck: when the      *)
(* template has the metadata's layouts, no slide built for a slide spec of *)
(* a returned deck is on a layout whose normalized name is forbidden,      *)
(* however its layout_name was resolved.                                   *)
(***************************************************************************)
ForbiddenLayoutNeverBuilt ==
    (Returned /\ TemplateCoversMetadata) =>
        \A i \in 1..Len(deck) :
            ~IsClosing(deck[i]) => Norm(template[deck[i].layout].name) \notin ForbiddenKeys

(***************************************************************************)
(* C5. Closing slide always appended.  As stated: every returned deck ends *)
(* with exactly one closing slide, on the template's last layout, with no  *)
(* placeholder text set.                                                   *)
(***************************************************************************)
ClosingSlideIsLast ==
    /\ Len(deck) > 0
    /\ IsClosing(deck[Len(deck)])
    /\ deck[Len(deck)].layout = Len(template)
    /\ IsEmptySlide(deck[Len(deck)])
    /\ ~deck[Len(deck)].failed
    /\ \A i \in 1..(Len(deck) - 1) : ~IsClosing(deck[i])

OneSlidePerSpec ==
    Returned =>
        /\ Len(Derived) = Len(Slides)
        /\ \A k \in 1..Len(Derived) :
               k <= Len(Slides) =>
                   Derived[k].layout =
                       find_layout(template, Get(Slides[k], "layout_name", <<>>))

\* C9 as amended: a returned deck has one plan slide per slide spec whose
\* layout_name is present and not the empty string, in plan order, the k-th on the
\* layout find_layout returns for the k-th such spec's layout_name (the fallback
\* layout for an unknown or white-space name); a spec whose layout_name is missing
\* or empty yields no slide.
OneSlidePerNamedSpec ==
    Returned =>
        /\ Len(Derived) = Len(Named)
        /\ \A k \in 1..Len(Derived) :
               /\ Derived[k].spec \in 1..Len(Slides)
               /\ Slides[Derived[k].spec] = Named[k]
               /\ Derived[k].layout = find_layout(template, Named[k].layout_name)
               /\ \A m \in 1..(k - 1) : Derived[m].spec < Derived[k].spec

\* a returned deck whose plan had a spec without layout_name and a spec whose
\* white-space name fell back to the first layout
OneSlidePerNamedSpecWitness ==
    /\ Returned
    /\ Len(Derived) < Len(Slides)
    /\ \E k \in 1..Len(Derived) :
           /\ Norm(Named[k].layout_name) = <<>>
           /\ Derived[k].layout = 1
           /\ Norm(template[1].name) # <<>>

(***************************************************************************)
(* C8. Per-slide failure isolation.  As stated: a slide whose fill failed  *)
(* stays in the deck with no placeholder carrying plan text, every later   *)
(* slide spec is still instantiated and filled, the closing slide is still *)
(* appended and the request does not fail because of it.                   *)
(***************************************************************************)
LaterSlidesBuilt ==
    \A i \in 1..Len(deck) :
        deck[i].failed =>
            /\ response \in {"", "200", "500 Failed to build PPTX: save"}
            /\ (pc \in {"save", "done"}) =>
                   /\ IsClosing(deck[Len(deck)])
                   /\ Len(Derived) = Len(Named)
                   /\ \A m \in (i + 1)..Len(deck) :
                          (~IsClosing(deck[m]) /\ ~deck[m].failed) =>
                              deck[m] = written(Fresh(m), WritesOf(m), Len(WritesOf(m)))

FailedSlideEmpty ==
    /\ \A i \in 1..Len(deck) : deck[i].failed => IsEmptySlide(deck[i])
    /\ LaterSlidesBuilt

\* C8 as amended: a slide whose fill failed stays in the deck carrying exactly the
\* texts assigned before the failing assignment (none from it on), every later
\* slide spec is still instantiated and filled, the closing slide is still appended
\* and the request does not fail because of it.
FailureIsolation ==
    /\ \A i \in 1..Len(deck) :
           deck[i].failed =>
               \E j \in 1..Len(WritesOf(i)) :
                   deck[i].text = written(Fresh(i), WritesOf(i), j - 1).text
    /\ LaterSlidesBuilt

\* a returned deck with a slide whose fill failed after a text was assigned,
\* followed by a filled plan slide
FailureIsolationWitness ==
    /\ Returned
    /\ \E i \in 1..Len(deck) :
           /\ deck[i].failed
           /\ ~IsEmptySlide(deck[i])
           /\ \E m \in (i + 1)..Len(deck) :
                  ~IsClosing(deck[m]) /\ ~deck[m].failed /\ ~IsEmptySlide(deck[m])

====
